---- MODULE Spec2Model ----
(***************************************************************************)
(* Condition extraction of the NARSAD first-level pipeline:               *)
(* extract_cs_conditions (first_level_workflows.py) on a pandas DataFrame *)
(* of trials.  A DataFrame is modelled with its row index labels, because *)
(* the function selects and assigns rows by label (.index, .loc).         *)
(***************************************************************************)
EXTENDS Integers, Sequences, FiniteSets, TLC

(* ---------------------------------------------------------------------- *)
(* Bounds of the model                                                    *)
(* ---------------------------------------------------------------------- *)
MaxRows == 3          \* rows of a trial table
MaxOnset == 1         \* onsets are 0..MaxOnset
MaxDuration == 1      \* durations are 1..MaxDuration
MaxPartialRows == 1   \* rows of a table that lacks one of the three columns

(* ---------------------------------------------------------------------- *)
(* Strings.  TLC strings are atomic, so each label has its characters     *)
(* listed, and str.startswith is computed on the characters.              *)
(* ---------------------------------------------------------------------- *)
RawLabels == {"CS-", "CSS", "CSR", "FIXATION", "CS+", "CS-_others"}

DerivedLabels ==
    {"CS-_first", "CS-_others", "CSS_first", "CSS_others", "CSR_first", "CSR_others"}

Chars ==
    [s \in {"CS"} \cup RawLabels \cup DerivedLabels |->
        CASE s = "CS"         -> <<"C", "S">>
          [] s = "CS-"        -> <<"C", "S", "-">>
          [] s = "CSS"        -> <<"C", "S", "S">>
          [] s = "CSR"        -> <<"C", "S", "R">>
          [] s = "FIXATION"   -> <<"F", "I", "X", "A", "T", "I", "O", "N">>
          [] s = "CS+"        -> <<"C", "S", "+">>
          [] s = "CS-_others" -> <<"C", "S", "-", "_", "o", "t", "h", "e", "r", "s">>
          [] s = "CS-_first"  -> <<"C", "S", "-", "_", "f", "i", "r", "s", "t">>
          [] s = "CSS_first"  -> <<"C", "S", "S", "_", "f", "i", "r", "s", "t">>
          [] s = "CSS_others" -> <<"C", "S", "S", "_", "o", "t", "h", "e", "r", "s">>
          [] s = "CSR_first"  -> <<"C", "S", "R", "_", "f", "i", "r", "s", "t">>
          [] s = "CSR_others" -> <<"C", "S", "R", "_", "o", "t", "h", "e", "r", "s">>]

startswith(s, prefix) ==
    /\ Len(Chars[prefix]) <= Len(Chars[s])
    /\ SubSeq(Chars[s], 1, Len(Chars[prefix])) = Chars[prefix]

(* The three selections of extract_cs_conditions *)
IsCSMinus(t) == startswith(t, "CS-") /\ ~startswith(t, "CSS") /\ ~startswith(t, "CSR")
IsCSS(t) == startswith(t, "CSS")
IsCSR(t) == startswith(t, "CSR")

(* ---------------------------------------------------------------------- *)
(* Objects.  Every object has the same fields so that objects compare.    *)
(* A column a frame does not have holds AbsentStr / AbsentNum in its rows.*)
(* ---------------------------------------------------------------------- *)
AbsentStr == "<absent>"
AbsentNum == 0 - 1
None == "None"

AllColumns == {"trial_type", "onset", "duration"}
\* (required_columns_all: the variant that also requires duration)
required_columns_all == {"trial_type", "onset", "duration"}
required_columns == {"trial_type", "onset"}

DataFrame(cols, rows) == [kind |-> "DataFrame", cols |-> cols, rows |-> rows]
NonFrame(k) == [kind |-> k, cols |-> {}, rows |-> <<>>]

isinstance_DataFrame(obj) == obj.kind = "DataFrame"
\* DataFrame.empty: some axis has length 0
empty(df) == df.rows = <<>> \/ df.cols = {}

(* Row index of a table of n rows read from k runs: one run gives the     *)
(* RangeIndex 0..n-1, two concatenated runs of k and n-k rows give        *)
(* 0..k-1 followed by 0..n-k-1.                                           *)
RunIndex(n, k) == [i \in 1..n |-> IF i <= k THEN i - 1 ELSE i - k - 1]
IndexChoices(n) == IF n = 0 THEN {<<>>} ELSE {RunIndex(n, k) : k \in 1..n}

Cells(cols) ==
    [trial_type : IF "trial_type" \in cols THEN RawLabels ELSE {AbsentStr},
     onset : IF "onset" \in cols THEN 0..MaxOnset ELSE {AbsentNum},
     duration : IF "duration" \in cols THEN 1..MaxDuration ELSE {AbsentNum}]

MkRow(ix, cell) ==
    [idx |-> ix, trial_type |-> cell.trial_type, onset |-> cell.onset,
     duration |-> cell.duration, conditions |-> AbsentStr]

RowBound(cols) == IF cols = AllColumns THEN MaxRows ELSE MaxPartialRows

NonFrameKinds == {"str", "list", "NoneType"}

(* ---------------------------------------------------------------------- *)
(* State                                                                  *)
(* ---------------------------------------------------------------------- *)
VARIABLES
    heap,       \* object store: reference -> object
    pc,         \* "call", "returned", "raised", "edited"
    ret,        \* the tuple extract_cs_conditions returned
    exc,        \* message of the ValueError raised, or None
    passed,     \* the object the caller passed, as it was at the call
    built       \* what a contrast builder produced from the table

vars == <<heap, pc, ret, exc, passed, built>>

df_trial_info == 1        \* reference held by the caller
Free == NonFrame("free")  \* unallocated slot
Refs == 1..2

NoRet ==
    [df |-> 0,
     cs_conditions |-> [first |-> None, other |-> <<>>],
     css_conditions |-> [first |-> None, other |-> <<>>],
     csr_conditions |-> [first |-> None, other |-> <<>>],
     other_conditions |-> <<>>]

\* no builder has run. A build records the builder, its contrast list, the
\* warnings it logged, the names in its return statement, the rows of the
\* exported CSV and the cope files selected.
NoBuild ==
    [by |-> None, contrast_type |-> None, contrasts |-> <<>>, log |-> <<>>,
     returns |-> <<>>, contrast_df |-> <<>>, copes |-> <<>>]

\* the caller holds obj and is about to call extract_cs_conditions(obj)
CallWith(obj) ==
    /\ heap = [r \in Refs |-> IF r = df_trial_info THEN obj ELSE Free]
    /\ passed = obj
    /\ pc = "call"
    /\ ret = NoRet
    /\ exc = None
    /\ built = NoBuild

Init ==
    \/ \E k \in NonFrameKinds : CallWith(NonFrame(k))
    \/ \E cols \in SUBSET AllColumns :
          \E n \in 0..RowBound(cols) :
            \E ix \in IndexChoices(n), cells \in [1..n -> Cells(cols)] :
              CallWith(DataFrame(cols, [i \in 1..n |-> MkRow(ix[i], cells[i])]))

(* ---------------------------------------------------------------------- *)
(* pandas helpers                                                         *)
(* ---------------------------------------------------------------------- *)
Range(f) == {f[i] : i \in DOMAIN f}

RECURSIVE unique(_)
\* Series.unique().tolist(): values in order of first appearance
\* (unique_all: the variant that keeps every value)
unique_all(seq) == seq
unique(seq) ==
    IF seq = <<>> THEN <<>>
    ELSE LET init == unique(SubSeq(seq, 1, Len(seq) - 1))
             last == seq[Len(seq)]
         IN  IF last \in Range(init) THEN init ELSE Append(init, last)

RECURSIVE SelectRows(_, _)
\* df[mask]: the rows at the positions in mask, in table order
SelectRows(rows, mask) ==
    IF rows = <<>> THEN <<>>
    ELSE LET n == Len(rows)
             init == SelectRows(SubSeq(rows, 1, n - 1), mask)
         IN  IF n \in mask THEN Append(init, rows[n]) ELSE init

\* df.copy(): a new object with the same contents
\* (copy_alias: the variant that binds df_work to the caller's object)
copy_alias(ref) == ref
copy(ref) == CHOOSE r \in Refs : r # ref

\* df_work['conditions'] = df_work['trial_type'].copy()
\* (init_conditions_cs_rows: the variant that keeps only the CS rows in df_work)
init_conditions_cs_rows(rows) ==
    LET kept == SelectRows(rows, {i \in DOMAIN rows : startswith(rows[i].trial_type, "CS")})
    IN  [i \in DOMAIN kept |-> [kept[i] EXCEPT !.conditions = kept[i].trial_type]]
init_conditions(rows) ==
    [i \in DOMAIN rows |-> [rows[i] EXCEPT !.conditions = rows[i].trial_type]]

\* df_work.loc[labels, 'conditions'] = value: every row whose index label is
\* among labels is assigned
loc_set(rows, labels, value) ==
    [i \in DOMAIN rows |->
        IF rows[i].idx \in labels THEN [rows[i] EXCEPT !.conditions = value] ELSE rows[i]]

\* positions of the rows selected by a family's mask on trial_type
FamilyCS(rows) == {i \in DOMAIN rows : IsCSMinus(rows[i].trial_type)}
FamilyCSS(rows) == {i \in DOMAIN rows : IsCSS(rows[i].trial_type)}
FamilyCSR(rows) == {i \in DOMAIN rows : IsCSR(rows[i].trial_type)}

NoIdx == 0 - 1

\* trials.sort_values('onset').index[0].  sort_values sorts with kind='quicksort',
\* which is not a stable sort: rows of equal onset come out in an order the
\* numpy build decides, so the first row of the sorted frame is any row of
\* minimal onset.
\* (sort_values_first_by_duration: the variant that sorts on 'duration')
sort_values_first_by_duration(rows, trials) ==
    IF trials = {} THEN {NoIdx}
    ELSE {rows[i].idx : i \in {j \in trials : \A k \in trials : rows[j].duration <= rows[k].duration}}

sort_values_first(rows, trials) ==
    IF trials = {} THEN {NoIdx}
    ELSE {rows[i].idx : i \in {j \in trials : \A k \in trials : rows[j].onset <= rows[k].onset}}

\* the "Update conditions column" block of one family
update_family(rows, trials, first_idx, first_label, others_label) ==
    IF trials = {} THEN rows
    ELSE LET marked == loc_set(rows, {first_idx}, first_label)
             other_indices == {rows[i].idx : i \in {j \in trials : rows[j].idx # first_idx}}
         IN  loc_set(marked, other_indices, others_label)

\* the "backward compatibility" summary of one family
family_summary(unique_conditions, first_label, others_label) ==
    [first |-> IF first_label \in Range(unique_conditions) THEN first_label ELSE None,
     other |-> IF others_label \in Range(unique_conditions) THEN <<others_label>> ELSE <<>>]

column(rows, name) ==
    [i \in DOMAIN rows |-> IF name = "conditions" THEN rows[i].conditions ELSE rows[i].trial_type]

\* df_work[~df_work['trial_type'].str.startswith('CS')]['trial_type'].unique().tolist()
other_conditions_of(rows) ==
    unique(column(SelectRows(rows, {i \in DOMAIN rows : ~startswith(rows[i].trial_type, "CS")}),
                  "trial_type"))

(* ---------------------------------------------------------------------- *)
(* extract_cs_conditions                                                  *)
(* ---------------------------------------------------------------------- *)
Raise(msg) ==
    /\ pc' = "raised"
    /\ exc' = msg
    /\ UNCHANGED <<heap, ret, passed, built>>

extract_raise_type ==
    /\ pc = "call"
    /\ ~isinstance_DataFrame(heap[df_trial_info])
    /\ Raise("df_trial_info must be a pandas DataFrame")

extract_raise_empty ==
    /\ pc = "call"
    /\ isinstance_DataFrame(heap[df_trial_info])
    /\ empty(heap[df_trial_info])
    /\ Raise("DataFrame cannot be empty")

extract_raise_missing ==
    /\ pc = "call"
    /\ isinstance_DataFrame(heap[df_trial_info])
    /\ ~empty(heap[df_trial_info])
    /\ required_columns \ heap[df_trial_info].cols # {}
    /\ Raise("DataFrame missing required columns")

\* the frame df_work holds at the return, for the three first indices
df_work_rows(rows, cs_first_idx, css_first_idx, csr_first_idx) ==
    LET w0 == init_conditions(rows)
        w1 == update_family(w0, FamilyCS(w0), cs_first_idx, "CS-_first", "CS-_others")
        w2 == update_family(w1, FamilyCSS(w1), css_first_idx, "CSS_first", "CSS_others")
    IN  update_family(w2, FamilyCSR(w2), csr_first_idx, "CSR_first", "CSR_others")

extract_cs_conditions ==
    /\ pc = "call"
    /\ isinstance_DataFrame(heap[df_trial_info])
    /\ ~empty(heap[df_trial_info])
    /\ required_columns \subseteq heap[df_trial_info].cols
    /\ LET src == heap[df_trial_info]
           df_work == copy(df_trial_info)
       IN  \E cs_first_idx \in sort_values_first(src.rows, FamilyCS(src.rows)),
              css_first_idx \in sort_values_first(src.rows, FamilyCSS(src.rows)),
              csr_first_idx \in sort_values_first(src.rows, FamilyCSR(src.rows)) :
             LET rows == df_work_rows(src.rows, cs_first_idx, css_first_idx, csr_first_idx)
                 unique_conditions == unique(column(rows, "conditions"))
             IN  /\ heap' = [heap EXCEPT
                                ![df_work] = DataFrame(src.cols \cup {"conditions"}, rows)]
                 /\ ret' = [df |-> df_work,
                            cs_conditions |->
                                family_summary(unique_conditions, "CS-_first", "CS-_others"),
                            css_conditions |->
                                family_summary(unique_conditions, "CSS_first", "CSS_others"),
                            csr_conditions |->
                                family_summary(unique_conditions, "CSR_first", "CSR_others"),
                            other_conditions |-> other_conditions_of(rows)]
    /\ pc' = "returned"
    /\ UNCHANGED <<exc, passed, built>>

\* the caller changes a cell of the table it was handed back
caller_edits_result ==
    /\ pc = "returned"
    /\ \E i \in DOMAIN heap[ret.df].rows :
          heap' = [heap EXCEPT ![ret.df].rows[i].trial_type = "edited"]
    /\ pc' = "edited"
    /\ UNCHANGED <<ret, exc, passed, built>>

\* a builder called without a trial table raises msg
RaiseIn(builder, msg) ==
    /\ pc = "call"
    /\ heap[df_trial_info].kind = "NoneType"
    /\ pc' = "raised"
    /\ exc' = msg
    /\ built' = [NoBuild EXCEPT !.by = builder]
    /\ UNCHANGED <<heap, ret, passed>>

\* first_level_wf_LSS / first_level_wf_voxelwise with df_trial_info=None
first_level_wf_LSS_None ==
    RaiseIn("first_level_wf_LSS", "ValueError: df_trial_info is required for LSS workflow")

\* generate_contrast_csv.create_interesting_contrasts(None)
create_interesting_contrasts_csv_None ==
    RaiseIn("generate_contrast_csv.create_interesting_contrasts",
            "ValueError: df_trial_info is required")

\* first_level_workflows.create_interesting_contrasts(None, ...): no test of
\* the argument, the first statement subscripts it
create_interesting_contrasts_None ==
    RaiseIn("create_interesting_contrasts",
            "TypeError: 'NoneType' object is not subscriptable")

Next ==
    \/ extract_raise_type
    \/ extract_raise_empty
    \/ extract_raise_missing
    \/ extract_cs_conditions
    \/ caller_edits_result
    \/ first_level_wf_LSS_None
    \/ create_interesting_contrasts_csv_None
    \/ create_interesting_contrasts_None

Spec == Init /\ [][Next]_vars

(* ---------------------------------------------------------------------- *)
(* Vocabulary of the properties                                           *)
(* ---------------------------------------------------------------------- *)
Families == {"CS-", "CSS", "CSR"}
FirstLabel(F) == CASE F = "CS-" -> "CS-_first" [] F = "CSS" -> "CSS_first" [] F = "CSR" -> "CSR_first"
OthersLabel(F) == CASE F = "CS-" -> "CS-_others" [] F = "CSS" -> "CSS_others" [] F = "CSR" -> "CSR_others"
Matches(F, t) == CASE F = "CS-" -> IsCSMinus(t) [] F = "CSS" -> IsCSS(t) [] F = "CSR" -> IsCSR(t)
Summary(F) ==
    CASE F = "CS-" -> ret.cs_conditions [] F = "CSS" -> ret.css_conditions [] F = "CSR" -> ret.csr_conditions

In == passed.rows                          \* the trial table as passed
Out == heap[ret.df].rows                   \* the augmented table as returned
Members(F) == {i \in DOMAIN In : Matches(F, In[i].trial_type)}
Labelled(l) == {i \in DOMAIN Out : Out[i].conditions = l}
Earliest(F) == {i \in Members(F) : \A k \in Members(F) : In[i].onset <= In[k].onset}
UniqueIndex == \A i, j \in DOMAIN In : In[i].idx = In[j].idx => i = j

(* ---------------------------------------------------------------------- *)
(* C1: after extract every trial that matches family F is labelled        *)
(* F_first if it is an earliest-onset trial of F and F_others otherwise,  *)
(* a trial matching no family keeps its raw label, and no trial carries a *)
(* label of a family its raw label does not match.                        *)
(* ---------------------------------------------------------------------- *)
C1_LabelRule ==
    pc = "returned" =>
        \A i \in DOMAIN In :
            /\ \A F \in Families :
                  /\ i \in Members(F) =>
                        /\ Out[i].conditions \in {FirstLabel(F), OthersLabel(F)}
                        /\ Out[i].conditions = FirstLabel(F) => i \in Earliest(F)
                        /\ i \notin Earliest(F) => Out[i].conditions = OthersLabel(F)
                  /\ Out[i].conditions \in {FirstLabel(F), OthersLabel(F)} => i \in Members(F)
            /\ (\A F \in Families : i \notin Members(F)) => Out[i].conditions = In[i].trial_type

(* ---------------------------------------------------------------------- *)
(* C2: for every family with at least one matching trial exactly one      *)
(* trial carries F_first after extract, whatever the row index labels.    *)
(* ---------------------------------------------------------------------- *)
C2_ExactlyOneFirst ==
    pc = "returned" =>
        \A F \in Families :
            Members(F) # {} => Cardinality(Labelled(FirstLabel(F))) = 1

(* ---------------------------------------------------------------------- *)
(* C3: first-is-earliest: the onset of a trial labelled F_first is at     *)
(* most the onset of every trial labelled F_others.                       *)
(* ---------------------------------------------------------------------- *)
C3_FirstIsEarliest ==
    pc = "returned" =>
        \A F \in Families :
            \A i \in Labelled(FirstLabel(F)), k \in Labelled(OthersLabel(F)) :
                Out[i].onset <= Out[k].onset

(* ---------------------------------------------------------------------- *)
(* C4: F_first appears in the augmented table iff the family has at least *)
(* one matching trial, F_others iff it has at least two.                  *)
(* ---------------------------------------------------------------------- *)
C4_LabelsAppearIff ==
    pc = "returned" =>
        \A F \in Families :
            /\ Labelled(FirstLabel(F)) # {} <=> Cardinality(Members(F)) >= 1
            /\ Labelled(OthersLabel(F)) # {} <=> Cardinality(Members(F)) >= 2

(* ---------------------------------------------------------------------- *)
(* C5: family exclusivity: the three family predicates are pairwise       *)
(* disjoint, a trial whose raw label starts with CSS or CSR is never      *)
(* selected into the CS- family, never carries CS-_first or CS-_others,   *)
(* and never keeps an earliest genuine CS- trial from being CS-_first.    *)
(* ---------------------------------------------------------------------- *)
C5_FamilyExclusivity ==
    /\ \A t \in RawLabels \cup DerivedLabels :
          \A F, G \in Families : Matches(F, t) /\ Matches(G, t) => F = G
    /\ pc = "returned" =>
          /\ \A i \in Members("CSS") \cup Members("CSR") :
                /\ i \notin FamilyCS(In)
                /\ Out[i].conditions \notin {"CS-_first", "CS-_others"}
          /\ Members("CS-") # {} =>
                \E i \in Earliest("CS-") : Out[i].conditions = "CS-_first"

(* ---------------------------------------------------------------------- *)
(* C6: the derived labelling is collision-free: a trial carries one of    *)
(* the six family labels only if its raw label matches that family, and   *)
(* no raw label outside the families equals a family label.               *)
(* ---------------------------------------------------------------------- *)
C6_CollisionFree ==
    /\ \A t \in RawLabels \cup DerivedLabels :
          (\A F \in Families : ~Matches(F, t)) => t \notin DerivedLabels
    /\ pc = "returned" =>
          \A F \in Families :
              Labelled(FirstLabel(F)) \cup Labelled(OthersLabel(F)) \subseteq Members(F)

(* ---------------------------------------------------------------------- *)
(* C7: conservation: the augmented table has the rows of the input, in    *)
(* the same order, with trial_type, onset and duration unchanged; the     *)
(* only difference is the added column `conditions`.                      *)
(* ---------------------------------------------------------------------- *)
C7_Conservation ==
    pc = "returned" =>
        /\ Len(Out) = Len(In)
        /\ \A i \in DOMAIN In :
              /\ Out[i].idx = In[i].idx
              /\ Out[i].trial_type = In[i].trial_type
              /\ Out[i].onset = In[i].onset
              /\ Out[i].duration = In[i].duration
        /\ heap[ret.df].cols = passed.cols \cup {"conditions"}

C7_Witness ==
    /\ pc = "returned"
    /\ Len(In) = 3
    /\ In[1].trial_type = "FIXATION" /\ In[2].trial_type = "CSS" /\ In[3].trial_type = "CS-"
    /\ In[2].onset # In[3].onset
    /\ Out[2].conditions = "CSS_first" /\ Out[3].conditions = "CS-_first"

(* ---------------------------------------------------------------------- *)
(* C8: extract never mutates the table it is given: after a call that     *)
(* returned or raised, and after the caller has changed the returned      *)
(* table, the caller's table has the rows, columns and values it had      *)
(* before the call.                                                       *)
(* ---------------------------------------------------------------------- *)
C8_InputNotMutated ==
    /\ heap[df_trial_info] = passed
    /\ "conditions" \notin heap[df_trial_info].cols
    /\ pc \in {"returned", "edited"} => ret.df # df_trial_info

C8_Witness ==
    /\ pc = "edited"
    /\ Len(passed.rows) >= 2
    /\ \E i \in DOMAIN Out : Out[i].trial_type # passed.rows[i].trial_type
    /\ \E i \in DOMAIN Out : Out[i].conditions \in DerivedLabels

(* ---------------------------------------------------------------------- *)
(* C9: tie-break: when several trials of a family share the family's      *)
(* minimum onset, the tied trial that comes first in the table is the one *)
(* labelled F_first and the other tied trials are labelled F_others.      *)
(* ---------------------------------------------------------------------- *)
FirstInTableOrder(S) == CHOOSE i \in S : \A k \in S : i <= k

C10_SummaryExact ==
    pc = "returned" =>
        /\ \A F \in Families :
              /\ Summary(F).first = IF Cardinality(Members(F)) >= 1 THEN FirstLabel(F) ELSE None
              /\ Summary(F).other =
                     IF Cardinality(Members(F)) >= 2 THEN <<OthersLabel(F)>> ELSE <<>>
        /\ Members("CSR") = {} =>
              /\ ret.csr_conditions = [first |-> None, other |-> <<>>]
              /\ Labelled("CSR_first") \cup Labelled("CSR_others") = {}

(* The labelling properties hold on every table whose index labels are    *)
(* unique: the violations of C1-C6 and C10 all need two rows that share   *)
(* an index label.                                                        *)
LabellingOnUniqueIndex ==
    UniqueIndex =>
        /\ C1_LabelRule
        /\ C2_ExactlyOneFirst
        /\ C3_FirstIsEarliest
        /\ C4_LabelsAppearIff
        /\ C5_FamilyExclusivity
        /\ C6_CollisionFree
        /\ C10_SummaryExact

(* ---------------------------------------------------------------------- *)
(* C11: other_conditions is exactly the raw labels that match none of the *)
(* three families (labels such as "CS+" included), each once, and holds   *)
(* no family label.                                                       *)
(* ---------------------------------------------------------------------- *)
NonFamilyRaw == {In[i].trial_type : i \in {j \in DOMAIN In : \A F \in Families : j \notin Members(F)}}

C11_OtherConditionsExact ==
    pc = "returned" =>
        /\ Range(ret.other_conditions) = NonFamilyRaw
        /\ Cardinality(Range(ret.other_conditions)) = Len(ret.other_conditions)

(* ---------------------------------------------------------------------- *)
(* C12: a call of extract with an input that is not a table, has zero     *)
(* rows, or lacks the trial_type or the onset column raises at once and   *)
(* returns no table and no summaries; every other input, a table without  *)
(* a duration column included, returns.                                   *)
(* ---------------------------------------------------------------------- *)
Rejected(obj) ==
    \/ obj.kind # "DataFrame"
    \/ Len(obj.rows) = 0
    \/ "trial_type" \notin obj.cols
    \/ "onset" \notin obj.cols

MaxDesignRows == 5
MaxTrialsPerLabel == 2
DesignLabels == {"CS-", "CSS", "CSR", "FIXATION"}

\* an events file of one run as read by pd.read_csv: RangeIndex, one trial
\* after the other
EventsFile(labels) ==
    DataFrame(AllColumns,
              [i \in DOMAIN labels |->
                  MkRow(i - 1, [trial_type |-> labels[i], onset |-> i - 1, duration |-> 1])])

RECURSIVE Interleave(_)
\* the trial order of a run with counts[l] trials of label l, the labels
\* taking turns
Interleave(counts) ==
    IF \A l \in DesignLabels : counts[l] = 0 THEN <<>>
    ELSE LET turn(l) == IF counts[l] > 0 THEN <<l>> ELSE <<>>
         IN  turn("FIXATION") \o turn("CS-") \o turn("CSS") \o turn("CSR")
                \o Interleave([l \in DesignLabels |-> IF counts[l] > 0 THEN counts[l] - 1 ELSE 0])

\* every run of up to MaxDesignRows trials, and the longer runs with up to
\* MaxTrialsPerLabel trials of each label
InitBuild ==
    \/ \E n \in 1..MaxDesignRows : \E labels \in [1..n -> DesignLabels] :
          CallWith(EventsFile(labels))
    \/ \E counts \in [DesignLabels -> 0..MaxTrialsPerLabel] :
          /\ \E l \in DesignLabels : counts[l] > 0
          /\ CallWith(EventsFile(Interleave(counts)))

\* sub in s
contains(s, sub) ==
    \E p \in 1..(Len(s) - Len(sub) + 1) : SubSeq(s, p, p + Len(sub) - 1) = sub

RECURSIVE split(_, _)
\* s.split(sep)
split(s, sep) ==
    IF ~contains(s, sep) THEN <<s>>
    ELSE LET p == CHOOSE q \in 1..(Len(s) - Len(sep) + 1) :
                      /\ SubSeq(s, q, q + Len(sep) - 1) = sep
                      /\ \A r \in 1..(q - 1) : SubSeq(s, r, r + Len(sep) - 1) # sep
         IN  <<SubSeq(s, 1, p - 1)>> \o split(SubSeq(s, p + Len(sep), Len(s)), sep)

RECURSIVE strip(_)
\* s.strip()
strip(s) ==
    IF Len(s) > 0 /\ SubSeq(s, 1, 1) = " " THEN strip(SubSeq(s, 2, Len(s)))
    ELSE IF Len(s) > 0 /\ SubSeq(s, Len(s), Len(s)) = " " THEN strip(SubSeq(s, 1, Len(s) - 1))
    ELSE s

\* the literal list of (name, description) pairs
\* (interesting_contrasts_short: the variant without the first entry)
interesting_contrasts_short ==
    << <<"CSS_others > FIXATION", "Other CSS trials vs baseline">>,
       <<"CSR_others > FIXATION", "Other CSR trials vs baseline">>,
       <<"CSS_others > CSR_others", "Other CSS trials vs Other CSR trials">>,
       <<"CSR_others > CSS_others", "Other CSR trials vs Other CSS trials">>,
       <<"CSS_others > CS-_others", "Other CSS trials vs Other CS- trials">>,
       <<"CSR_others > CS-_others", "Other CSR trials vs Other CS- trials">>,
       <<"CS-_others > CSS_others", "Other CS- trials vs Other CSS trials">>,
       <<"CS-_others > CSR_others", "Other CS- trials vs Other CSR trials">> >>
interesting_contrasts ==
    << <<"CS-_others > FIXATION", "Other CS- trials vs baseline">>,
       <<"CSS_others > FIXATION", "Other CSS trials vs baseline">>,
       <<"CSR_others > FIXATION", "Other CSR trials vs baseline">>,
       <<"CSS_others > CSR_others", "Other CSS trials vs Other CSR trials">>,
       <<"CSR_others > CSS_others", "Other CSR trials vs Other CSS trials">>,
       <<"CSS_others > CS-_others", "Other CSS trials vs Other CS- trials">>,
       <<"CSR_others > CS-_others", "Other CSR trials vs Other CS- trials">>,
       <<"CS-_others > CSS_others", "Other CS- trials vs Other CSS trials">>,
       <<"CS-_others > CSR_others", "Other CS- trials vs Other CSR trials">> >>

\* df_with_conditions['conditions'].unique().tolist()
\* (all_conditions_of_trial_type: the variant that reads the raw labels)
all_conditions_of_trial_type(rows) == unique(column(rows, "trial_type"))
all_conditions_of(rows) == unique(column(rows, "conditions"))

\* the dict condition -> len(df[df['conditions'] == condition])
conditions_with_trials(rows) ==
    [condition \in Range(all_conditions_of(rows)) |->
        Cardinality({i \in DOMAIN rows : rows[i].conditions = condition})]

\* d.get(key, default)
\* (get_default: the variant that finds no key)
get_default(d, key, default) == default
get(d, key, default) == IF key \in DOMAIN d THEN d[key] ELSE default

\* the entry (name, 'T', [condition1, condition2], [1, -1])
\* (TContrast_flipped: the variant with the weights the other way round;
\* TContrast_sum: the variant that adds the two conditions)
TContrast_sum(name, condition1, condition2) == <<name, "T", <<condition1, condition2>>, <<1, 1>> >>
TContrast_flipped(name, condition1, condition2) == <<name, "T", <<condition1, condition2>>, <<0 - 1, 1>> >>
TContrast(name, condition1, condition2) == <<name, "T", <<condition1, condition2>>, <<1, 0 - 1>> >>

NoAcc == [contrasts |-> <<>>, log |-> <<>>]

\* the parsing steps of the loop body for one name: ' > ' in name,
\* name.split(' > '), strip() of both parts
parse(contrast_name) ==
    LET parts == split(contrast_name, " > ")
    IN  [name |-> contrast_name,
         well_formed |-> contains(contrast_name, " > "),
         condition1 |-> strip(parts[1]),
         condition2 |-> IF Len(parts) > 1 THEN strip(parts[2]) ELSE ""]

\* the literal list with every name parsed
interesting_parsed == [k \in DOMAIN interesting_contrasts |-> parse(interesting_contrasts[k][1])]

RECURSIVE interesting_loop(_, _, _, _)
\* the for loop of first_level_workflows.create_interesting_contrasts over
\* the entries todo; acc holds the list built so far and the warnings logged
interesting_loop(todo, all_conditions, counts, acc) ==
    IF todo = <<>> THEN acc
    ELSE
      LET contrast_name == Head(todo).name
          condition1 == Head(todo).condition1
          condition2 == Head(todo).condition2
          missing1 == condition1 \notin Range(all_conditions) \/ get(counts, condition1, 0) = 0
          missing2 == condition2 \notin Range(all_conditions) \/ get(counts, condition2, 0) = 0
          missing_conditions ==
              (IF missing1 THEN <<condition1>> ELSE <<>>) \o (IF missing2 THEN <<condition2>> ELSE <<>>)
          next ==
              IF Head(todo).well_formed
              THEN IF /\ condition1 \in Range(all_conditions)
                      /\ condition2 \in Range(all_conditions)
                      /\ get(counts, condition1, 0) > 0
                      /\ get(counts, condition2, 0) > 0
                   THEN [acc EXCEPT !.contrasts =
                            Append(@, TContrast(contrast_name, condition1, condition2))]
                   ELSE [acc EXCEPT !.log =
                            Append(@, [contrast |-> contrast_name,
                                       conditions |-> missing_conditions])]
              ELSE [acc EXCEPT !.log = Append(@, [contrast |-> contrast_name, conditions |-> <<>>])]
      IN  interesting_loop(Tail(todo), all_conditions, counts, next)

\* first_level_workflows.create_interesting_contrasts(df_with_conditions, ...)
interesting_of(rows) ==
    interesting_loop(interesting_parsed, all_conditions_of(rows),
                     conditions_with_trials(rows), NoAcc)

create_interesting_contrasts ==
    /\ pc = "returned"
    /\ LET b == interesting_of(heap[ret.df].rows)
       IN  built' = [NoBuild EXCEPT !.by = "create_interesting_contrasts",
                                    !.contrasts = b.contrasts,
                                    !.log = b.log,
                                    !.returns = <<"contrasts">>]
    /\ pc' = "built"
    /\ UNCHANGED <<heap, ret, exc, passed>>

RECURSIVE standard_loop(_, _, _)
\* the for loop of create_standard_contrasts over the conditions todo
standard_loop(todo, counts, contrasts) ==
    IF todo = <<>> THEN contrasts
    ELSE LET condition == Head(todo)
         IN  standard_loop(Tail(todo), counts,
                 IF get(counts, condition, 0) > 0
                 THEN Append(contrasts,
                             TContrast(condition \o " > FIXATION", condition, "FIXATION"))
                 ELSE contrasts)

\* first_level_workflows.create_standard_contrasts(df_with_conditions, ...)
standard_of(rows) == standard_loop(all_conditions_of(rows), conditions_with_trials(rows), <<>>)

create_standard_contrasts ==
    /\ pc = "returned"
    /\ LET contrasts == standard_of(heap[ret.df].rows)
       IN  built' = [NoBuild EXCEPT !.by = "create_standard_contrasts",
                                    !.contrasts = contrasts,
                                    !.returns = <<"contrasts">>]
    /\ pc' = "built"
    /\ UNCHANGED <<heap, ret, exc, passed>>

\* the cope{i} / varcope{i} templates of feat_select, i in 1..n_contrasts
cope_files(n_contrasts) == [i \in 1..n_contrasts |-> "cope" \o ToString(i)]

\* first_level_wf_LSS / first_level_wf_voxelwise with a non-empty in_files
\* and a trial table, after their call of extract_cs_conditions
first_level_wf_LSS(contrast_type) ==
    /\ pc = "returned"
    /\ LET rows == heap[ret.df].rows
           b == IF contrast_type = "interesting"
                THEN interesting_of(rows)
                ELSE [contrasts |-> standard_of(rows), log |-> <<>>]
           n_contrasts == Len(b.contrasts)
       IN  built' = [NoBuild EXCEPT !.by = "first_level_wf_LSS",
                                    !.contrast_type = contrast_type,
                                    !.contrasts = b.contrasts,
                                    !.log = b.log,
                                    !.returns = <<"workflow">>,
                                    !.copes = cope_files(n_contrasts)]
    /\ pc' = "built"
    /\ UNCHANGED <<heap, ret, exc, passed>>

RECURSIVE interesting_csv_loop(_, _, _)
\* the for loop of generate_contrast_csv.create_interesting_contrasts
interesting_csv_loop(todo, all_contrast_conditions, acc) ==
    IF todo = <<>> THEN acc
    ELSE
      LET contrast_name == Head(todo).name
          condition1 == Head(todo).condition1
          condition2 == Head(todo).condition2
          next ==
              IF Head(todo).well_formed
              THEN IF /\ condition1 \in Range(all_contrast_conditions)
                      /\ condition2 \in Range(all_contrast_conditions)
                   THEN [acc EXCEPT !.contrasts =
                            Append(@, TContrast(contrast_name, condition1, condition2))]
                   ELSE [acc EXCEPT !.log =
                            Append(@, [contrast |-> contrast_name,
                                       conditions |-> <<condition1, condition2>>])]
              ELSE [acc EXCEPT !.log = Append(@, [contrast |-> contrast_name, conditions |-> <<>>])]
      IN  interesting_csv_loop(Tail(todo), all_contrast_conditions, next)

\* the rows of pd.DataFrame(contrast_data)
contrast_data(contrasts) ==
    [i \in DOMAIN contrasts |->
        [contrast_id |-> i,
         contrast_name |-> contrasts[i][1],
         contrast_type |-> contrasts[i][2],
         condition1 |-> contrasts[i][3][1],
         condition2 |-> contrasts[i][3][2],
         weight1 |-> contrasts[i][4][1],
         weight2 |-> contrasts[i][4][2],
         description |-> "C" \o ToString(i) \o ": " \o contrasts[i][1]]]

\* generate_contrast_csv(events_file, output_file) after the extract call of
\* its create_interesting_contrasts: build, export, print the summary
generate_contrast_csv ==
    /\ pc = "returned"
    /\ LET b == interesting_csv_loop(interesting_parsed,
                                     all_conditions_of(heap[ret.df].rows), NoAcc)
           contrast_df == contrast_data(b.contrasts)
           saved == [NoBuild EXCEPT !.by = "generate_contrast_csv",
                                    !.contrasts = b.contrasts,
                                    !.log = b.log,
                                    !.contrast_df = contrast_df]
       IN  IF contrast_df = <<>>
           THEN \* pd.DataFrame([]) has no columns: contrast_df['condition1']
                /\ built' = saved
                /\ pc' = "raised"
                /\ exc' = "KeyError: 'condition1'"
           ELSE /\ built' = [saved EXCEPT !.returns = <<"contrast_df">>]
                /\ pc' = "built"
                /\ exc' = exc
    /\ UNCHANGED <<heap, ret, passed>>

RECURSIVE minimal_loop_skip_fixation(_, _)
RECURSIVE minimal_loop(_, _)
\* contrast_type == 'minimal': one entry per condition
\* (minimal_loop_skip_fixation: the variant that leaves the baseline out)
minimal_loop_skip_fixation(todo, contrasts) ==
    IF todo = <<>> THEN contrasts
    ELSE LET condition == Head(todo)
         IN  minimal_loop_skip_fixation(Tail(todo),
                 IF condition = "FIXATION" THEN contrasts
                 ELSE Append(contrasts, <<condition \o ">baseline", "T", <<condition>>, <<1>> >>))
minimal_loop(todo, contrasts) ==
    IF todo = <<>> THEN contrasts
    ELSE LET condition == Head(todo)
         IN  minimal_loop(Tail(todo),
                 Append(contrasts, <<condition \o ">baseline", "T", <<condition>>, <<1>> >>))

RECURSIVE pairwise_loop_unordered(_, _, _, _)
RECURSIVE pairwise_loop(_, _, _, _)
\* contrast_type == 'standard': the double loop over enumerate(conditions),
\* outer position i, inner position j
\* (pairwise_loop_unordered: the variant that also visits the pairs with i > j)
pairwise_loop_unordered(i, j, conditions, contrasts) ==
    IF i > Len(conditions) THEN contrasts
    ELSE IF j > Len(conditions) THEN pairwise_loop_unordered(i + 1, 1, conditions, contrasts)
    ELSE LET cond1 == conditions[i]
             cond2 == conditions[j]
         IN  pairwise_loop_unordered(i, j + 1, conditions,
                 IF i # j
                 THEN contrasts \o
                      << <<cond1 \o ">" \o cond2, "T", <<cond1, cond2>>, <<1, 0 - 1>> >>,
                         <<cond1 \o "<" \o cond2, "T", <<cond1, cond2>>, <<0 - 1, 1>> >> >>
                 ELSE contrasts)
pairwise_loop(i, j, conditions, contrasts) ==
    IF i > Len(conditions) THEN contrasts
    ELSE IF j > Len(conditions) THEN pairwise_loop(i + 1, 1, conditions, contrasts)
    ELSE LET cond1 == conditions[i]
             cond2 == conditions[j]
         IN  pairwise_loop(i, j + 1, conditions,
                 IF i < j
                 THEN contrasts \o
                      << <<cond1 \o ">" \o cond2, "T", <<cond1, cond2>>, <<1, 0 - 1>> >>,
                         <<cond1 \o "<" \o cond2, "T", <<cond1, cond2>>, <<0 - 1, 1>> >> >>
                 ELSE contrasts)

\* generate_contrasts.create_contrasts(df_trial_info, contrast_type) after
\* its call of extract_cs_conditions_new
create_contrasts(contrast_type) ==
    /\ pc = "returned"
    /\ LET all_contrast_conditions == all_conditions_of(heap[ret.df].rows)
           contrasts ==
               IF contrast_type = "minimal" THEN minimal_loop(all_contrast_conditions, <<>>)
               ELSE IF contrast_type = "standard"
                    THEN pairwise_loop(1, 1, all_contrast_conditions, <<>>)
                    ELSE <<>>
       IN  built' = [NoBuild EXCEPT !.by = "create_contrasts",
                                    !.contrast_type = contrast_type,
                                    !.contrasts = contrasts,
                                    !.returns = <<"contrasts", "all_contrast_conditions",
                                                  "df_with_conditions">>]
    /\ pc' = "built"
    /\ UNCHANGED <<heap, ret, exc, passed>>

ContrastTypes == {"minimal", "standard"}
WorkflowContrastTypes == {"interesting", "standard", "minimal"}

NextBuild ==
    \/ extract_cs_conditions
    \/ create_interesting_contrasts
    \/ create_standard_contrasts
    \/ \E contrast_type \in WorkflowContrastTypes : first_level_wf_LSS(contrast_type)
    \/ generate_contrast_csv
    \/ \E contrast_type \in ContrastTypes : create_contrasts(contrast_type)

SpecBuild == InitBuild /\ [][NextBuild]_vars

(* ---------------------------------------------------------------------- *)
(* Vocabulary of the contrast properties                                  *)
(* ---------------------------------------------------------------------- *)
\* a curated build has run (the CSV export keeps its list when it raises)
CuratedDone ==
    /\ pc \in {"built", "raised"}
    /\ \/ built.by \in {"create_interesting_contrasts", "generate_contrast_csv"}
       \/ built.by = "first_level_wf_LSS" /\ built.contrast_type = "interesting"

\* the derived label l has at least one trial in the augmented table
Populated(l) == Labelled(l) # {}

Expected(left, right) == <<left \o " > " \o right, "T", <<left, right>>, <<1, 0 - 1>> >>

NineContrasts ==
    << Expected("CS-_others", "FIXATION"),
       Expected("CSS_others", "FIXATION"),
       Expected("CSR_others", "FIXATION"),
       Expected("CSS_others", "CSR_others"),
       Expected("CSR_others", "CSS_others"),
       Expected("CSS_others", "CS-_others"),
       Expected("CSR_others", "CS-_others"),
       Expected("CS-_others", "CSS_others"),
       Expected("CS-_others", "CSR_others") >>

Usable(contrast) == Populated(contrast[3][1]) /\ Populated(contrast[3][2])
MentionsCSR(contrast) == "CSR_others" \in Range(contrast[3])
WithoutCSR(contrast) == ~MentionsCSR(contrast)
NoCSRTrials == \A i \in DOMAIN In : ~IsCSR(In[i].trial_type)

(* ---------------------------------------------------------------------- *)
(* C13: when the augmented table has a trial of each of CS-_others,       *)
(* CSS_others, CSR_others and FIXATION, the curated build yields exactly  *)
(* the nine contrasts of the literal list, in order, each 'T' with        *)
(* conditions [left, right] and weights [1, -1].                          *)
(* ---------------------------------------------------------------------- *)
CompleteCase ==
    \A l \in {"CS-_others", "CSS_others", "CSR_others", "FIXATION"} : Populated(l)

C13_CuratedComplete ==
    (CuratedDone /\ CompleteCase) => built.contrasts = NineContrasts

C13_Witness ==
    /\ pc = "built"
    /\ built.by = "generate_contrast_csv"
    /\ CompleteCase
    /\ Len(built.contrasts) = 9

(* ---------------------------------------------------------------------- *)
(* C14: a contrast of the curated list is in the result iff both labels   *)
(* it references have a trial in the augmented table; the result is the   *)
(* sub-list of the kept entries in curated order and nothing else.        *)
(* ---------------------------------------------------------------------- *)
C14_ValidationRule ==
    CuratedDone => built.contrasts = SelectSeq(NineContrasts, Usable)

C14_Witness ==
    /\ pc = "built"
    /\ built.by = "create_interesting_contrasts"
    /\ Populated("CSR_first")
    /\ ~Populated("CSR_others")
    /\ Len(built.contrasts) = 4

(* ---------------------------------------------------------------------- *)
(* C15 as stated: with zero CSR trials in the input table the curated     *)
(* result omits the four named contrasts and contains the remaining five  *)
(* of the nine, so exactly 5 are returned.                                *)
(* ---------------------------------------------------------------------- *)
FourNamed ==
    {"CSR_others > FIXATION", "CSS_others > CSR_others",
     "CSR_others > CSS_others", "CSR_others > CS-_others"}

C15_ScenarioD_AsStated ==
    (CuratedDone /\ NoCSRTrials) =>
        /\ \A k \in DOMAIN NineContrasts :
              NineContrasts[k] \in Range(built.contrasts) <=> NineContrasts[k][1] \notin FourNamed
        /\ Len(built.contrasts) = 5

(* ---------------------------------------------------------------------- *)
(* C15 amended: with zero CSR trials the five contrasts that reference    *)
(* CSR_others (the four named ones and "CS-_others > CSR_others") are     *)
(* omitted; the other four are returned, in curated order, when           *)
(* CS-_others, CSS_others and FIXATION each have a trial (exactly 4 of    *)
(* the 9), and otherwise only those of the four whose two labels both     *)
(* have a trial.                                                          *)
(* ---------------------------------------------------------------------- *)
C15_ScenarioD ==
    (CuratedDone /\ NoCSRTrials) =>
        /\ \A k \in DOMAIN built.contrasts : ~MentionsCSR(built.contrasts[k])
        /\ Cardinality({k \in DOMAIN NineContrasts : MentionsCSR(NineContrasts[k])}) = 5
        /\ (\A l \in {"CS-_others", "CSS_others", "FIXATION"} : Populated(l))
              => /\ built.contrasts = SelectSeq(NineContrasts, WithoutCSR)
                 /\ Len(built.contrasts) = 4
        /\ \A k \in DOMAIN NineContrasts :
              (WithoutCSR(NineContrasts[k]) /\ ~Usable(NineContrasts[k]))
                  => NineContrasts[k] \notin Range(built.contrasts)

C15_Witness ==
    /\ pc = "built"
    /\ built.by = "first_level_wf_LSS"
    /\ built.contrast_type = "interesting"
    /\ NoCSRTrials
    /\ Len(built.contrasts) = 4

(* ---------------------------------------------------------------------- *)
(* C16: for every builder and every table, each label in the conditions   *)
(* of a returned contrast is a derived label with at least one trial in   *)
(* the table the contrast was built from.                                 *)
(* ---------------------------------------------------------------------- *)
BuildDone == pc \in {"built", "raised"} /\ built.by # None

C16_NoLabelLeakage ==
    BuildDone =>
        \A k \in DOMAIN built.contrasts :
            \A l \in Range(built.contrasts[k][3]) : Populated(l)

(* ---------------------------------------------------------------------- *)
(* C17: the curated build always yields nine contrasts and position i     *)
(* (contrast_id in the exported CSV, cope{i} in the workflow) is always   *)
(* the i-th entry of the literal curated list.                            *)
(* ---------------------------------------------------------------------- *)
C17_StableNumbering ==
    CuratedDone =>
        /\ Len(built.contrasts) = 9
        /\ \A i \in DOMAIN built.contrasts : built.contrasts[i][1] = NineContrasts[i][1]
        /\ \A i \in DOMAIN built.contrast_df :
              built.contrast_df[i].contrast_name = NineContrasts[built.contrast_df[i].contrast_id][1]
        /\ built.by = "first_level_wf_LSS" => built.copes = cope_files(9)

(* ---------------------------------------------------------------------- *)
(* C18: every dropped curated contrast has one record naming exactly the  *)
(* labels of it that are missing or without trials, nothing else is       *)
(* recorded, and the drop reasons are returned to the caller with the     *)
(* contrast list.                                                         *)
(* ---------------------------------------------------------------------- *)
RecordsOf(contrast) == {j \in DOMAIN built.log : built.log[j].contrast = contrast[1]}
Unpopulated(contrast) == {l \in Range(contrast[3]) : ~Populated(l)}

C18_DropReasons ==
    CuratedDone =>
        /\ \A k \in DOMAIN NineContrasts :
              IF Usable(NineContrasts[k])
              THEN RecordsOf(NineContrasts[k]) = {}
              ELSE /\ Cardinality(RecordsOf(NineContrasts[k])) = 1
                   /\ \A j \in RecordsOf(NineContrasts[k]) :
                         Range(built.log[j].conditions) = Unpopulated(NineContrasts[k])
        /\ built.log # <<>> => "missing_conditions" \in Range(built.returns)

(* ---------------------------------------------------------------------- *)
(* C19: when no curated contrast is usable for a valid table, the curated *)
(* build yields an empty list and the build and its callers complete      *)
(* without an exception.                                                  *)
(* ---------------------------------------------------------------------- *)
C19_ZeroContrastsNoCrash ==
    (CuratedDone /\ \A k \in DOMAIN NineContrasts : ~Usable(NineContrasts[k])) =>
        /\ built.contrasts = <<>>
        /\ pc = "built"
        /\ exc = None

(* ---------------------------------------------------------------------- *)
(* C20: for n distinct derived labels in order of first appearance,       *)
(* create_contrasts 'standard' returns n*(n-1) contrasts: for each pair   *)
(* of positions i < j, in double-loop order, A>B with [A, B], [1, -1]     *)
(* directly followed by A<B with [A, B], [-1, 1].                         *)
(* ---------------------------------------------------------------------- *)
DerivedPresent == {Out[i].conditions : i \in DOMAIN Out}
FirstPos(l) == CHOOSE i \in DOMAIN Out : Out[i].conditions = l /\ \A j \in 1..(i - 1) : Out[j].conditions # l
LabelAt(p) == CHOOSE l \in DerivedPresent : Cardinality({m \in DerivedPresent : FirstPos(m) < FirstPos(l)}) = p - 1
\* the number of pairs visited before the pair (i, j) of n positions
PairsBefore(i, j, n) ==
    Cardinality({q \in (1..n) \X (1..n) : q[1] < q[2] /\ (q[1] < i \/ (q[1] = i /\ q[2] < j))})

StandardDone == pc = "built" /\ built.by = "create_contrasts" /\ built.contrast_type = "standard"

C20_StandardPairs ==
    StandardDone =>
        LET n == Cardinality(DerivedPresent)
        IN  /\ Len(built.contrasts) = n * (n - 1)
            /\ \A i \in 1..n, j \in 1..n :
                  i < j =>
                    LET A == LabelAt(i)
                        B == LabelAt(j)
                        at == 2 * PairsBefore(i, j, n)
                    IN  /\ built.contrasts[at + 1] = <<A \o ">" \o B, "T", <<A, B>>, <<1, 0 - 1>> >>
                        /\ built.contrasts[at + 2] = <<A \o "<" \o B, "T", <<A, B>>, <<0 - 1, 1>> >>

C20_Witness ==
    /\ StandardDone
    /\ Cardinality(DerivedPresent) = 7
    /\ Len(built.contrasts) = 42

(* ---------------------------------------------------------------------- *)
(* C21: create_contrasts 'minimal' returns exactly one contrast per        *)
(* distinct derived label and no other, each named <condition>>baseline,  *)
(* of kind 'T', with conditions [<condition>] and weights [1].            *)
(* ---------------------------------------------------------------------- *)
MinimalDone == pc = "built" /\ built.by = "create_contrasts" /\ built.contrast_type = "minimal"

C21_MinimalPolicy ==
    MinimalDone =>
        /\ Len(built.contrasts) = Cardinality(DerivedPresent)
        /\ Range(built.contrasts) = {<<l \o ">baseline", "T", <<l>>, <<1>> >> : l \in DerivedPresent}

C21_Witness ==
    /\ MinimalDone
    /\ Cardinality(DerivedPresent) = 7
    /\ Len(built.contrasts) = 7

(* ---------------------------------------------------------------------- *)
(* C22: a workflow constructor called with contrast_type 'standard' hands *)
(* the model the pairwise list of the standard policy for the same table, *)
(* and with 'minimal' the one-per-label list of the minimal policy.       *)
(* ---------------------------------------------------------------------- *)
C22_WorkflowHonoursPolicy ==
    (pc = "built" /\ built.by = "first_level_wf_LSS") =>
        /\ built.contrast_type = "standard"
              => built.contrasts = pairwise_loop(1, 1, all_conditions_of(Out), <<>>)
        /\ built.contrast_type = "minimal"
              => built.contrasts = minimal_loop(all_conditions_of(Out), <<>>)

(* ---------------------------------------------------------------------- *)
(* C23: no two contrasts of one returned contrast list share a name,      *)
(* whatever the policy.                                                   *)
(* ---------------------------------------------------------------------- *)
C23_UniqueNames ==
    BuildDone =>
        \A i, j \in DOMAIN built.contrasts :
            built.contrasts[i][1] = built.contrasts[j][1] => i = j

C23_Witness ==
    /\ pc = "built"
    /\ built.by = "create_standard_contrasts"
    /\ Len(built.contrasts) = 4
    /\ \E i \in DOMAIN In : In[i].trial_type = "FIXATION"

(* ---------------------------------------------------------------------- *)
(* C24: for the same input table two runs of extract give the same        *)
(* derived label on every trial (and so the same contrasts), also when    *)
(* several trials of a family tie on the minimum onset: the labelling a   *)
(* run returned is the only one a run on that table can return.           *)
(* ---------------------------------------------------------------------- *)
\* every augmented table a run of extract on rows can produce
ExtractOutcomes(rows) ==
    {df_work_rows(rows, cs_first_idx, css_first_idx, csr_first_idx) :
        cs_first_idx \in sort_values_first(rows, FamilyCS(rows)),
        css_first_idx \in sort_values_first(rows, FamilyCSS(rows)),
        csr_first_idx \in sort_values_first(rows, FamilyCSR(rows))}

ValidationError(e) == Len(e) >= 10 /\ SubSeq(e, 1, 10) = "ValueError"

C25_MissingInput ==
    (pc = "raised" /\ passed.kind = "NoneType" /\ built.by # None) =>
        /\ ValidationError(exc)
        /\ built.contrasts = <<>>
        /\ built.copes = <<>>
        /\ built.returns = <<>>

(* ---------------------------------------------------------------------- *)
(* C26: every contrast returned by a builder is well formed: kind 'T',    *)
(* one or two conditions, as many weights as conditions, weights [1] for  *)
(* one condition, one weight 1 and one weight -1 for two.                 *)
(* ---------------------------------------------------------------------- *)
WellFormed(contrast) ==
    /\ Len(contrast) = 4
    /\ contrast[2] = "T"
    /\ Len(contrast[3]) \in {1, 2}
    /\ Len(contrast[4]) = Len(contrast[3])
    /\ Len(contrast[3]) = 1 => contrast[4] = <<1>>
    /\ Len(contrast[3]) = 2 =>
          /\ contrast[4] \in {<<1, 0 - 1>>, <<0 - 1, 1>>}
          /\ contrast[4][1] + contrast[4][2] = 0

C26_WellFormed ==
    BuildDone => \A k \in DOMAIN built.contrasts : WellFormed(built.contrasts[k])

C26_Witness ==
    /\ pc = "built"
    /\ built.by = "first_level_wf_LSS"
    /\ built.contrast_type = "interesting"
    /\ Len(built.contrasts) = 9

(* ---------------------------------------------------------------------- *)
(* C27: extraction does not depend on duration: a table that agrees with  *)
(* the one passed on trial_type and onset, row by row, and differs in     *)
(* duration gets the same derived labels, the same family summaries and   *)
(* the same contrasts under every policy.  Where rows tie on onset the    *)
(* two tables have the same possible results.                             *)
(* ---------------------------------------------------------------------- *)
AltDurations == 1..(MaxDuration + 1)

WithDurations(rows, d) == [i \in DOMAIN rows |-> [rows[i] EXCEPT !.duration = d[i]]]

\* what extraction and the builders derive from one augmented table
DerivedFrom(df_work) ==
    LET unique_conditions == all_conditions_of(df_work)
    IN  [conditions  |-> column(df_work, "conditions"),
         cs          |-> family_summary(unique_conditions, "CS-_first", "CS-_others"),
         css         |-> family_summary(unique_conditions, "CSS_first", "CSS_others"),
         csr         |-> family_summary(unique_conditions, "CSR_first", "CSR_others"),
         other       |-> other_conditions_of(df_work),
         interesting |-> interesting_of(df_work).contrasts,
         csv         |-> interesting_csv_loop(interesting_parsed, unique_conditions, NoAcc).contrasts,
         standard    |-> standard_of(df_work),
         minimal     |-> minimal_loop(unique_conditions, <<>>),
         pairwise    |-> pairwise_loop(1, 1, unique_conditions, <<>>)]

Derived(rows) == {DerivedFrom(df_work) : df_work \in ExtractOutcomes(rows)}

process_events_for_conditions(df_with_conditions) ==
    [i \in DOMAIN df_with_conditions |->
        [df_with_conditions[i] EXCEPT !.trial_type = df_with_conditions[i].conditions,
                                      !.conditions = AbsentStr]]

C28_Reapplication ==
    pc = "returned" =>
        \A again \in ExtractOutcomes(Out) \cup ExtractOutcomes(process_events_for_conditions(Out)) :
            column(again, "conditions") = column(Out, "conditions")

(* ---------------------------------------------------------------------- *)
(* C29: no self-contrast: in every two-condition contrast a builder       *)
(* returns, the two conditions are different labels.                      *)
(* ---------------------------------------------------------------------- *)
C29_NoSelfContrast ==
    BuildDone =>
        \A k \in DOMAIN built.contrasts :
            Len(built.contrasts[k][3]) = 2 =>
                built.contrasts[k][3][1] # built.contrasts[k][3][2]

(* ---------------------------------------------------------------------- *)
(* C30: the two curated implementations agree: create_interesting_        *)
(* contrasts of first_level_workflows.py (presence and trial count > 0)   *)
(* and of generate_contrast_csv.py (presence only) return the same        *)
(* contrasts in the same order on every augmented table.                  *)
(* ---------------------------------------------------------------------- *)
C30_ImplementationsAgree ==
    (/\ pc \in {"built", "raised"}
     /\ built.by \in {"create_interesting_contrasts", "generate_contrast_csv"}) =>
        /\ built.contrasts = interesting_of(Out).contrasts
        /\ built.contrasts =
              interesting_csv_loop(interesting_parsed, all_conditions_of(Out), NoAcc).contrasts

C30_Witness ==
    /\ pc = "built"
    /\ built.by = "generate_contrast_csv"
    /\ Len(built.contrasts) \in 1..8
    /\ Len(built.log) = 9 - Len(built.contrasts)

====
